---------------------------- MODULE Spec2Model ----------------------------
(***************************************************************************)
(* Model of noty (src/noty.py): a command line note store kept in one JSON *)
(* file.  Every invocation of the program loads the whole file, changes    *)
(* the list of notes in memory and writes the whole list back.             *)
(*                                                                         *)
(* The backing file is modelled as a sequence of JSON tokens, json.dump    *)
(* and json.load as the operators Dump and Parse over these tokens, and    *)
(* strings typed by the user (the id given to -r, the answer to the        *)
(* confirmation prompt) as sequences of one-character strings.             *)
(***************************************************************************)
EXTENDS Integers, Sequences, FiniteSets, TLC

(* ------------------------------ bounds --------------------------------- *)
\* Largest number of notes the model lets the store hold.
MaxNotes == 3
\* Largest id the model lets a note carry.
MaxId == 3

\* Note texts the user may pass to Add.
Texts == {"buy milk", "call mom"}
\* Values of datetime.now().strftime('%Y-%m-%d %H:%M:%S').
Timestamps == {"2024-05-01 10:00:00", "2024-05-01 10:00:01"}

(* ------------------------------ notes ---------------------------------- *)
\* The dict built by add_note: keys text, timestamp, id.
Note(text, timestamp, id) == [text |-> text, timestamp |-> timestamp, id |-> id]

\* All sequences over S of length at most n.
SeqsUpTo(S, n) == UNION {[1..k -> S] : k \in 0..n}

\* Values json.load can hand back: a list of note objects, null, or {}.
ListVal(items) == [t |-> "list", items |-> items]
NullVal == [t |-> "null", items |-> <<>>]
DictVal == [t |-> "dict", items |-> <<>>]

(* --------------------------- JSON text --------------------------------- *)
\* A punctuation or literal token of the JSON text.
Tok(s) == [tok |-> s, text |-> "", timestamp |-> "", id |-> 0]
\* The token of one serialized note object.
Obj(n) == [tok |-> "obj", text |-> n.text, timestamp |-> n.timestamp, id |-> n.id]
\* The note object an "obj" token denotes.
UnObj(k) == [text |-> k.text, timestamp |-> k.timestamp, id |-> k.id]

RECURSIVE DumpItems_NoSeparator(_)
\* Variant: nothing is written between two items.
DumpItems_NoSeparator(items) ==
    IF items = <<>> THEN <<>>
    ELSE <<Obj(items[1])>> \o DumpItems_NoSeparator(Tail(items))

RECURSIVE DumpItems(_)
\* The items of a JSON array, separated by commas.
DumpItems(items) ==
    IF items = <<>> THEN <<>>
    ELSE IF Len(items) = 1 THEN <<Obj(items[1])>>
    ELSE <<Obj(items[1]), Tok(",")>> \o DumpItems(Tail(items))

\* json.dump(notes, f, indent=2) of a list of notes.
Dump(items) == <<Tok("[")>> \o DumpItems(items) \o <<Tok("]")>>

RECURSIVE ParseItems(_)
\* Parses obj (, obj)* ; ok is FALSE on a syntax error.
ParseItems(toks) ==
    IF toks = <<>> THEN [ok |-> FALSE, items |-> <<>>]
    ELSE IF toks[1].tok # "obj" THEN [ok |-> FALSE, items |-> <<>>]
    ELSE IF Len(toks) = 1 THEN [ok |-> TRUE, items |-> <<UnObj(toks[1])>>]
    ELSE IF toks[2].tok # "," THEN [ok |-> FALSE, items |-> <<>>]
    ELSE LET rest == ParseItems(SubSeq(toks, 3, Len(toks)))
         IN  [ok |-> rest.ok,
              items |-> IF rest.ok THEN <<UnObj(toks[1])>> \o rest.items ELSE <<>>]

\* json.load(f): ok is FALSE when json.JSONDecodeError is raised.
Parse(toks) ==
    IF toks = <<Tok("null")>> THEN [ok |-> TRUE, val |-> NullVal]
    ELSE IF toks = <<Tok("{"), Tok("}")>> THEN [ok |-> TRUE, val |-> DictVal]
    ELSE IF Len(toks) < 2 THEN [ok |-> FALSE, val |-> ListVal(<<>>)]
    ELSE IF toks[1].tok # "[" \/ toks[Len(toks)].tok # "]"
         THEN [ok |-> FALSE, val |-> ListVal(<<>>)]
    ELSE IF Len(toks) = 2 THEN [ok |-> TRUE, val |-> ListVal(<<>>)]
    ELSE LET inner == ParseItems(SubSeq(toks, 2, Len(toks) - 1))
         IN  [ok |-> inner.ok, val |-> ListVal(inner.items)]

(* ------------------------------ files ---------------------------------- *)
\* The state of ~/.noty_notes.json: missing, or holding a token sequence.
NoFile == [exists |-> FALSE, content |-> <<>>]
FileWith(toks) == [exists |-> TRUE, content |-> toks]

\* NotyManager.load_notes
load_notes(f) ==
    IF ~f.exists THEN ListVal(<<>>)
    ELSE IF Parse(f.content).ok THEN Parse(f.content).val
    ELSE ListVal(<<>>)

\* Outcomes of the write in save_notes: it succeeds, open() raises (the file
\* is left as it was), or a write raises after open() truncated the file.
IOOk == {"ok"}
IOAny == {"ok", "open_fails", "write_fails"}

\* The strict prefixes of a token sequence: what a file holds when the write
\* stopped part-way.
Prefixes(toks) == {SubSeq(toks, 1, k) : k \in 0..(Len(toks) - 1)}

\* Variant: the file is opened for appending.
save_notes_Append(f, items, io) ==
    IF io = "ok" THEN {FileWith(f.content \o Dump(items))}
    ELSE IF io = "open_fails" THEN {f}
    ELSE {FileWith(f.content \o p) : p \in Prefixes(Dump(items))}

\* NotyManager.save_notes: the files that can result from saving items.
save_notes(f, items, io) ==
    IF io = "ok" THEN {FileWith(Dump(items))}
    ELSE IF io = "open_fails" THEN {f}
    ELSE {FileWith(p) : p \in Prefixes(Dump(items))}

(* --------------------------- list helpers ------------------------------ *)
\* The ids carried by a list of notes.
IdsOf(items) == {items[i].id : i \in 1..Len(items)}

\* max(existing_ids)
MaxOf(S) == CHOOSE m \in S : \A x \in S : x <= m

\* Variant: the smallest id no stored note carries.
NextId_FillGap(items) ==
    CHOOSE n \in 1..(Len(items) + 1) :
        /\ n \notin IdsOf(items)
        /\ \A m \in 1..(n - 1) : m \in IdsOf(items)

\* Variant: the number of stored notes plus one.
NextId_Count(items) == Len(items) + 1

\* add_note, "Find the next available ID".
NextId(items) == IF items = <<>> THEN 1 ELSE MaxOf(IdsOf(items)) + 1

\* Variant: the loop variable is kept when nothing matched, so the last
\* note is taken.
FindFirst_KeepsLast(items, id) ==
    IF \E i \in 1..Len(items) : items[i].id = id
    THEN CHOOSE i \in 1..Len(items) :
            /\ items[i].id = id
            /\ \A j \in 1..(i - 1) : items[j].id # id
    ELSE Len(items)

\* Variant: the loop has no break, so the last match is taken.
FindFirst_LastMatch(items, id) ==
    IF \E i \in 1..Len(items) : items[i].id = id
    THEN CHOOSE i \in 1..Len(items) :
            /\ items[i].id = id
            /\ \A j \in (i + 1)..Len(items) : items[j].id # id
    ELSE 0

\* The loop of remove_note: index of the first note with the id, 0 if none.
FindFirst(items, id) ==
    IF \E i \in 1..Len(items) : items[i].id = id
    THEN CHOOSE i \in 1..Len(items) :
            /\ items[i].id = id
            /\ \A j \in 1..(i - 1) : items[j].id # id
    ELSE 0

\* Variant: the last note is moved into the place of the removed one.
ListRemove_SwapLast(items, x) ==
    LET i == CHOOSE k \in 1..Len(items) :
                /\ items[k] = x
                /\ \A j \in 1..(k - 1) : items[j] # x
    IN  [k \in 1..(Len(items) - 1) |-> IF k = i THEN items[Len(items)] ELSE items[k]]

\* Variant: every element equal to x is dropped.
ListRemove_All(items, x) == SelectSeq(items, LAMBDA y : y # x)

\* list.remove(x): drops the first element equal to x.
ListRemove(items, x) ==
    LET i == CHOOSE k \in 1..Len(items) :
                /\ items[k] = x
                /\ \A j \in 1..(k - 1) : items[j] # x
    IN  [k \in 1..(Len(items) - 1) |-> IF k < i THEN items[k] ELSE items[k + 1]]

\* Variant: ids count from 0.
Renumber_ZeroBased(items) == [i \in 1..Len(items) |-> [items[i] EXCEPT !.id = i - 1]]

\* Variant: the new id is derived from the old id, not from the position.
Renumber_FromOldId(items) ==
    [i \in 1..Len(items) |-> [items[i] EXCEPT !.id = (items[i].id % Len(items)) + 1]]

\* fix_duplicate_ids, "Reassign IDs sequentially".
Renumber(items) == [i \in 1..Len(items) |-> [items[i] EXCEPT !.id = i]]

(* ------------------------- strings from the user ----------------------- *)
\* Strings typed by the user are sequences of one-character strings.
WhiteSpace == {" "}

UpperToLower == [c \in {"Y", "E", "S", "N", "O"} |->
    CASE c = "Y" -> "y" [] c = "E" -> "e" [] c = "S" -> "s"
      [] c = "N" -> "n" [] c = "O" -> "o"]

\* str.lower()
Lower(s) == [i \in 1..Len(s) |->
    IF s[i] \in DOMAIN UpperToLower THEN UpperToLower[s[i]] ELSE s[i]]

RECURSIVE LStrip(_)
LStrip(s) == IF s # <<>> /\ s[1] \in WhiteSpace THEN LStrip(Tail(s)) ELSE s

RECURSIVE RStrip(_)
RStrip(s) ==
    IF s # <<>> /\ s[Len(s)] \in WhiteSpace
    THEN RStrip(SubSeq(s, 1, Len(s) - 1)) ELSE s

\* str.strip()
Strip(s) == RStrip(LStrip(s))

DigitValue == [c \in {"0", "1", "2", "3", "4", "5", "6", "7", "8", "9"} |->
    CASE c = "0" -> 0 [] c = "1" -> 1 [] c = "2" -> 2 [] c = "3" -> 3
      [] c = "4" -> 4 [] c = "5" -> 5 [] c = "6" -> 6 [] c = "7" -> 7
      [] c = "8" -> 8 [] c = "9" -> 9]

RECURSIVE DigitsValue(_)
\* The number written by a non-empty sequence of decimal digits.
DigitsValue(s) ==
    IF Len(s) = 1 THEN DigitValue[s[1]]
    ELSE 10 * DigitsValue(SubSeq(s, 1, Len(s) - 1)) + DigitValue[s[Len(s)]]

\* int(note_id) of a str: surrounding blanks, an optional sign, decimal
\* digits; ok is FALSE when ValueError is raised.
ParseInt(s) ==
    LET t == Strip(s)
        signed == t # <<>> /\ t[1] \in {"+", "-"}
        d == IF signed THEN Tail(t) ELSE t
    IN  IF d # <<>> /\ \A i \in 1..Len(d) : d[i] \in DOMAIN DigitValue
        THEN [ok |-> TRUE,
              val |-> IF signed /\ t[1] = "-" THEN 0 - DigitsValue(d)
                      ELSE DigitsValue(d)]
        ELSE [ok |-> FALSE, val |-> 0]

\* The text of a small non-negative number.
DigitChar(n) == CHOOSE c \in DOMAIN DigitValue : DigitValue[c] = n

\* Arguments given to -r that Python's int() accepts, each with its value ...
IntInputs ==
    {[arg |-> <<DigitChar(i)>>, val |-> i] : i \in 1..(MaxId + 1)}
      \cup {[arg |-> <<" ", "2", " ">>, val |-> 2],
            [arg |-> <<"+", "1">>, val |-> 1],
            [arg |-> <<"-", "1">>, val |-> 0 - 1]}
IntArgs == {x.arg : x \in IntInputs}
\* ... and arguments it rejects.
NonIntArgs == {<<>>, <<"a">>, <<"1", ".", "5">>, <<"2", "x">>}
RemoveArgs == IntArgs \cup NonIntArgs

\* The answers to the confirmation prompt that count as yes, as no, and that
\* are not recognized.
YesReplies == {<<"y">>, <<" ", "Y", "E", "S", " ">>}
NoReplies == {<<"N">>, <<"n", "o">>, <<>>, <<" ">>}
OtherReplies == {<<"m", "a", "y", "b", "e">>, <<"y", "e">>, <<"y", " ", "e", "s">>}
Replies == YesReplies \cup NoReplies \cup OtherReplies

(* --------------------------- command line ------------------------------ *)
\* First arguments the user may type: flags in short and long form, words
\* that are no flag, and words with a leading dash that are no known flag.
Commands ==
    {<<"-", "a">>, <<"-", "l">>, <<"-", "-", "l", "i", "s", "t">>, <<"-", "r">>,
     <<"-", "h">>, <<"-", "f">>, <<"-", "e">>, <<"-", "c">>,
     <<"b", "u", "y">>, <<"-", "x">>, <<"-">>}

\* Variant: a word with a leading dash that is no flag is taken as note text.
Dispatch_NoDashCheck(command) ==
    IF command \in {<<"-", "a">>, <<"-", "-", "a", "d", "d">>} THEN "add"
    ELSE IF command \in {<<"-", "l">>, <<"-", "-", "l", "i", "s", "t">>} THEN "list"
    ELSE IF command \in {<<"-", "r">>, <<"-", "-", "r", "e", "m", "o", "v", "e">>}
         THEN "remove"
    ELSE IF command \in {<<"-", "h">>, <<"-", "-", "h", "e", "l", "p">>} THEN "help"
    ELSE IF command \in {<<"-", "f">>, <<"-", "-", "f", "i", "x">>} THEN "fix"
    ELSE IF command \in {<<"-", "e">>, <<"-", "-", "e", "x", "p", "o", "r", "t">>}
         THEN "export"
    ELSE IF command \in {<<"-", "c">>, <<"-", "-", "c", "l", "e", "a", "r">>}
         THEN "clear"
    ELSE "add"

\* The branch main takes on its first argument.
Dispatch(command) ==
    IF command \in {<<"-", "a">>, <<"-", "-", "a", "d", "d">>} THEN "add"
    ELSE IF command \in {<<"-", "l">>, <<"-", "-", "l", "i", "s", "t">>} THEN "list"
    ELSE IF command \in {<<"-", "r">>, <<"-", "-", "r", "e", "m", "o", "v", "e">>}
         THEN "remove"
    ELSE IF command \in {<<"-", "h">>, <<"-", "-", "h", "e", "l", "p">>} THEN "help"
    ELSE IF command \in {<<"-", "f">>, <<"-", "-", "f", "i", "x">>} THEN "fix"
    ELSE IF command \in {<<"-", "e">>, <<"-", "-", "e", "x", "p", "o", "r", "t">>}
         THEN "export"
    ELSE IF command \in {<<"-", "c">>, <<"-", "-", "c", "l", "e", "a", "r">>}
         THEN "clear"
    ELSE IF command # <<>> /\ command[1] = "-" THEN "unknown flag"
    ELSE "add"

\* The first arguments that make main take the branch op.
CommandsFor(op) == {c \in Commands : Dispatch(c) = op}

\* The note text main joins from the arguments: all of them after a flag,
\* all of them from the first word on in the shorthand form.
TextsFor(command) ==
    IF command # <<>> /\ command[1] = "-" THEN Texts ELSE {"buy milk"}

\* The invocations that run concurrently.
Procs == {1, 2}

\* A process with nothing loaded.
Idle == [pc |-> "idle", op |-> "none", base |-> <<>>, notes |-> <<>>]

(* ------------------------------ state ---------------------------------- *)
VARIABLES
    file,     \* the backing file ~/.noty_notes.json
    pc,       \* "idle" between invocations, "confirm" inside the prompt loop
    prev,     \* history: the backing file when the latest invocation started
    last,     \* history: what the latest step of an invocation did
    retired,  \* history: the ids of the notes removed by remove_note so far,
              \* kept in the runs that start from the empty store
    command,  \* history: the first argument of the latest invocation
    shown,    \* the notes printed by list_notes in the latest invocation
    report,   \* the file written by export_notes in the latest invocation
    local     \* per process: the list "notes" it holds, where it stands

vars == <<file, pc, prev, last, retired, command, shown, report, local>>

\* The record kept in last.
\*   op, arg, text  the operation and its input
\*   msg, exit      what was printed last, and how the process stands
\*   saved, io      whether save_notes was called, and how its write went
\*   id             the id given to the new note, or the id looked for
\*   resp           the normalized answer to the prompt
\*   again          the step before belonged to the same operation
Did(op, msg, exit, saved, io, id, text, arg, resp) ==
    [op |-> op, msg |-> msg, exit |-> exit, saved |-> saved, io |-> io,
     id |-> id, text |-> text, arg |-> arg, resp |-> resp,
     again |-> (last.op = op)]

NoOp == [op |-> "none", msg |-> "", exit |-> "normal", saved |-> FALSE,
         io |-> "none", id |-> 0, text |-> "", arg |-> <<>>, resp |-> <<>>,
         again |-> FALSE]

\* An uncaught exception raised by the write in save_notes ends the process.
ExitOf(io) == IF io = "ok" THEN "normal" ELSE "crash"
MsgOf(io, msg) == IF io = "ok" THEN msg ELSE "Traceback: OSError"

\* Nothing was typed, printed from the store or exported yet, and no
\* process holds a list.
Fresh ==
    /\ command = <<>>
    /\ shown = <<>>
    /\ report = NoFile
    /\ local = [p \in Procs |-> Idle]

\* Construction: no backing file yet, nothing has run.
Init ==
    /\ file = NoFile
    /\ pc = "idle"
    /\ prev = NoFile
    /\ last = NoOp
    /\ retired = {}
    /\ Fresh

\* A step that lists nothing and exports nothing.
Quiet ==
    /\ shown' = <<>>
    /\ report' = NoFile
    /\ UNCHANGED local

(* ---------------------------- operations ------------------------------- *)
\* noty <text> / noty -a <text>: NotyManager.add_note
add_note(ios) ==
    /\ pc = "idle"
    /\ command' \in CommandsFor("add")
    /\ \E text \in TextsFor(command'), now \in Timestamps, io \in ios :
         LET notes == load_notes(file) IN
         IF notes.t # "list"
         THEN \* notes.append raises AttributeError on None and on a dict
              /\ file' = file
              /\ last' = Did("add", "Traceback: AttributeError", "crash",
                             FALSE, "none", 0, text, <<>>, <<>>)
         ELSE /\ Len(notes.items) < MaxNotes
              /\ NextId(notes.items) <= MaxId
              /\ LET note == Note(text, now, NextId(notes.items)) IN
                 /\ file' \in save_notes(file, Append(notes.items, note), io)
                 /\ last' = Did("add", MsgOf(io, "Added note"), ExitOf(io),
                                TRUE, io, note.id, text, <<>>, <<>>)
    /\ prev' = file
    /\ Quiet
    /\ UNCHANGED <<pc, retired>>

\* noty -r <id>: NotyManager.remove_note.  The history of removed ids is
\* kept when history is TRUE.
remove_note(ios, history) ==
    /\ pc = "idle"
    /\ command' \in CommandsFor("remove")
    /\ \E arg \in RemoveArgs, io \in ios :
         LET parsed == ParseInt(arg)
             notes == load_notes(file)
             at == FindFirst(notes.items, parsed.val)
         IN
         IF ~parsed.ok
         THEN /\ file' = file
              /\ retired' = retired
              /\ last' = Did("remove", "Error: not a valid ID number", "normal",
                             FALSE, "none", 0, "", arg, <<>>)
         ELSE IF notes.t = "null"
         THEN \* iterating None raises TypeError
              /\ file' = file
              /\ retired' = retired
              /\ last' = Did("remove", "Traceback: TypeError", "crash",
                             FALSE, "none", parsed.val, "", arg, <<>>)
         ELSE IF at = 0
         THEN /\ file' = file
              /\ retired' = retired
              /\ last' = Did("remove", "Error: No note found", "normal",
                             FALSE, "none", parsed.val, "", arg, <<>>)
         ELSE /\ file' \in save_notes(file,
                                      ListRemove(notes.items, notes.items[at]), io)
              /\ retired' = IF history /\ io = "ok"
                            THEN retired \cup {parsed.val}
                            ELSE retired
              /\ last' = Did("remove", MsgOf(io, "Removed note"), ExitOf(io),
                             TRUE, io, parsed.val, notes.items[at].text, arg, <<>>)
    /\ prev' = file
    /\ Quiet
    /\ UNCHANGED pc

\* Variant: the test for an empty list is left out.
Falsy_Never(notes) == FALSE

\* "not notes": holds of [], of {} and of None.
Falsy(notes) == notes.items = <<>>

\* noty -f: NotyManager.fix_duplicate_ids
fix_duplicate_ids(ios) ==
    /\ pc = "idle"
    /\ command' \in CommandsFor("fix")
    /\ \E io \in ios :
         LET notes == load_notes(file) IN
         IF Falsy(notes)
         THEN /\ file' = file
              /\ last' = Did("fix", "No notes to fix.", "normal",
                             FALSE, "none", 0, "", <<>>, <<>>)
         ELSE /\ file' \in save_notes(file, Renumber(notes.items), io)
              /\ last' = Did("fix", MsgOf(io, "Fixed IDs"), ExitOf(io),
                             TRUE, io, 0, "", <<>>, <<>>)
    /\ prev' = file
    /\ Quiet
    /\ UNCHANGED <<pc, retired>>

\* noty -c: NotyManager.clear_all_notes up to the first prompt.
clear_all_notes ==
    /\ pc = "idle"
    /\ command' \in CommandsFor("clear")
    /\ LET notes == load_notes(file) IN
       IF Falsy(notes)
       THEN /\ pc' = "idle"
            /\ last' = Did("clear", "No notes to clear.", "normal",
                           FALSE, "none", 0, "", <<>>, <<>>)
       ELSE /\ pc' = "confirm"
            /\ last' = Did("clear", "Warning", "running",
                           FALSE, "none", 0, "", <<>>, <<>>)
    /\ prev' = file
    /\ Quiet
    /\ UNCHANGED <<file, retired>>

\* The response is lowered, then stripped.
Normalize(reply) == Strip(Lower(reply))

\* Variant: an empty answer counts as yes.
Decision_EmptyIsYes(response) ==
    IF response \in {<<"y">>, <<"y", "e", "s">>, <<>>} THEN "yes"
    ELSE IF response \in {<<"n">>, <<"n", "o">>} THEN "no"
    ELSE "ask again"

\* The branch the loop of clear_all_notes takes on a response.
Decision(response) ==
    IF response \in {<<"y">>, <<"y", "e", "s">>} THEN "yes"
    ELSE IF response \in {<<"n">>, <<"n", "o">>, <<>>} THEN "no"
    ELSE "ask again"

\* One turn of the loop of clear_all_notes: a line is read from the prompt.
confirm(ios) ==
    /\ pc = "confirm"
    /\ \E reply \in Replies, io \in ios :
         LET response == Normalize(reply) IN
         IF Decision(response) = "yes"
         THEN /\ file' \in save_notes(file, <<>>, io)
              /\ pc' = "idle"
              /\ last' = Did("clear", MsgOf(io, "Cleared all"), ExitOf(io),
                             TRUE, io, 0, "", reply, response)
         ELSE IF Decision(response) = "no"
         THEN /\ file' = file
              /\ pc' = "idle"
              /\ last' = Did("clear", "Operation cancelled.", "normal",
                             FALSE, "none", 0, "", reply, response)
         ELSE /\ file' = file
              /\ pc' = "confirm"
              /\ last' = Did("clear", "Please enter 'y' for yes or 'n' for no.",
                             "running", FALSE, "none", 0, "", reply, response)
    /\ Quiet
    /\ UNCHANGED <<prev, retired, command>>

\* input() raises EOFError when standard input is at its end.
confirm_eof ==
    /\ pc = "confirm"
    /\ pc' = "idle"
    /\ last' = Did("clear", "Traceback: EOFError", "crash",
                   FALSE, "none", 0, "", <<>>, <<>>)
    /\ Quiet
    /\ UNCHANGED <<file, prev, retired, command>>

\* The lines list_notes prints, one per note: #id, timestamp, text.
Rows(items) ==
    [i \in 1..Len(items) |-> <<items[i].id, items[i].timestamp, items[i].text>>]

\* noty -l: NotyManager.list_notes
list_notes ==
    /\ pc = "idle"
    /\ command' \in CommandsFor("list")
    /\ LET notes == load_notes(file) IN
       IF Falsy(notes)
       THEN /\ shown' = <<>>
            /\ last' = Did("list", "No notes found.", "normal",
                           FALSE, "none", 0, "", <<>>, <<>>)
       ELSE /\ shown' = Rows(notes.items)
            /\ last' = Did("list", "Found note(s)", "normal",
                           FALSE, "none", 0, "", <<>>, <<>>)
    /\ prev' = file
    /\ report' = NoFile
    /\ UNCHANGED <<file, pc, retired, local>>

\* A line of the export file.
Line(kind, n, str) == [kind |-> kind, n |-> n, str |-> str]

RECURSIVE Blocks(_)
\* The block export_notes writes for each note: "#id - timestamp", the
\* text, a rule and an empty line.
Blocks(items) ==
    IF items = <<>> THEN <<>>
    ELSE <<Line("note", items[1].id, items[1].timestamp),
           Line("text", 0, items[1].text),
           Line("dashes", 0, ""),
           Line("empty", 0, "")>> \o Blocks(Tail(items))

\* Variant: the count leaves one note out.
ReportLines_CountOff(items, now) ==
    <<Line("title", 0, ""), Line("rule", 0, ""), Line("exported on", 0, now),
      Line("total notes", Len(items) - 1, ""), Line("empty", 0, "")>>
        \o Blocks(items)

\* The text export_notes writes.
ReportLines(items, now) ==
    <<Line("title", 0, ""), Line("rule", 0, ""), Line("exported on", 0, now),
      Line("total notes", Len(items), ""), Line("empty", 0, "")>>
        \o Blocks(items)

\* noty -e [file]: NotyManager.export_notes.  The destination is a file
\* other than the backing file; an IOError of its write is caught.
export_notes(ios) ==
    /\ pc = "idle"
    /\ command' \in CommandsFor("export")
    /\ \E now \in Timestamps, io \in ios :
         LET notes == load_notes(file) IN
         IF Falsy(notes)
         THEN /\ report' = NoFile
              /\ last' = Did("export", "No notes to export.", "normal",
                             FALSE, "none", 0, "", <<>>, <<>>)
         ELSE /\ report' \in
                    IF io = "ok" THEN {FileWith(ReportLines(notes.items, now))}
                    ELSE IF io = "open_fails" THEN {NoFile}
                    ELSE {FileWith(l) : l \in Prefixes(ReportLines(notes.items, now))}
              /\ last' = Did("export",
                             IF io = "ok" THEN "Exported notes"
                             ELSE "Error writing to file",
                             "normal", FALSE, io, 0, "", <<>>, <<>>)
    /\ prev' = file
    /\ shown' = <<>>
    /\ UNCHANGED <<file, pc, retired, local>>

\* An invocation that only prints: op names the branch of main, typed the
\* first arguments that lead to it.
prints_only(op, typed, msg) ==
    /\ pc = "idle"
    /\ command' \in typed
    /\ last' = Did(op, msg, "normal", FALSE, "none", 0, "", <<>>, <<>>)
    /\ prev' = file
    /\ Quiet
    /\ UNCHANGED <<file, pc, retired>>

\* noty with no argument: the usage summary.
usage == prints_only("usage", {<<>>}, "Usage:")

\* noty -h
help == prints_only("help", CommandsFor("help"), "Noty - Simple command line note-taking tool")

\* noty -x: a first argument with a leading dash that is no flag.
unknown_flag == prints_only("unknown flag", CommandsFor("unknown flag"), "Error: Unknown flag")

\* noty -a and noty -r with nothing after the flag.
missing_argument ==
    prints_only("missing argument", {c \in CommandsFor("add") \cup CommandsFor("remove") : c[1] = "-"},
                "Error: Please provide")

\* The invocations that read the store or only print.
Queries ==
    \/ list_notes
    \/ usage
    \/ help
    \/ unknown_flag
    \/ missing_argument

(* --------------------------- specifications ---------------------------- *)
\* The tool used alone on a working file system, from an empty store.
Next ==
    \/ add_note(IOOk)
    \/ remove_note(IOOk, TRUE)
    \/ fix_duplicate_ids(IOOk)
    \/ clear_all_notes
    \/ confirm(IOOk)
    \/ confirm_eof

Spec == Init /\ [][Next]_vars

\* Only Add and Remove are ever invoked.
NextAddRemove ==
    \/ add_note(IOOk)
    \/ remove_note(IOOk, TRUE)

SpecAddRemove == Init /\ [][NextAddRemove]_vars

\* The notes written into the backing file outside the tool.
ExternalNotes ==
    {Note("buy milk", "2024-05-01 10:00:00", i) : i \in 1..MaxId}
      \cup {Note("call mom", "2024-05-01 10:00:01", i) : i \in 1..MaxId}

\* Contents the backing file may have been given outside the tool: any list
\* of notes (duplicate ids and gaps included), JSON that is not a list, and
\* text that is not JSON.
ExternalFiles ==
    {NoFile}
      \cup {FileWith(Dump(items)) : items \in SeqsUpTo(ExternalNotes, MaxNotes)}
      \cup {FileWith(<<Tok("null")>>), FileWith(<<Tok("{"), Tok("}")>>)}
      \cup {FileWith(<<>>), FileWith(<<Tok("[")>>), FileWith(<<Tok("]"), Tok("[")>>)}
      \cup {FileWith(<<Tok("["), Obj(n)>>) : n \in ExternalNotes}

InitExternal ==
    /\ file \in ExternalFiles
    /\ pc = "idle"
    /\ prev = file
    /\ last = NoOp
    /\ retired = {}
    /\ Fresh

\* The tool used alone on a file that was edited outside it.
NextExternal ==
    \/ add_note(IOOk)
    \/ remove_note(IOOk, FALSE)
    \/ fix_duplicate_ids(IOOk)
    \/ clear_all_notes
    \/ confirm(IOOk)
    \/ confirm_eof

SpecExternal == InitExternal /\ [][NextExternal]_vars

\* The tool on a file system whose writes can fail.
NextIO ==
    \/ add_note(IOAny)
    \/ remove_note(IOAny, FALSE)
    \/ fix_duplicate_ids(IOAny)
    \/ clear_all_notes
    \/ confirm(IOAny)
    \/ confirm_eof

SpecIO == Init /\ [][NextIO]_vars

\* The invocations that show or export the notes or only print, next to the
\* ones that find the store empty and to Add.
NextQueries ==
    \/ add_note(IOOk)
    \/ fix_duplicate_ids(IOOk)
    \/ clear_all_notes
    \/ confirm(IOOk)
    \/ confirm_eof
    \/ export_notes(IOOk)
    \/ Queries

\* A missing file, or a list whose ids increase along the storage order.
QueryFiles ==
    {NoFile}
      \cup {FileWith(Dump(items)) :
               items \in {l \in SeqsUpTo(ExternalNotes, MaxNotes) :
                             \A i \in 1..(Len(l) - 1) : l[i].id < l[i + 1].id}}

InitQueries ==
    /\ file \in QueryFiles
    /\ pc = "idle"
    /\ prev = file
    /\ last = NoOp
    /\ retired = {}
    /\ Fresh

SpecQueries == InitQueries /\ [][NextQueries]_vars

(* ------------------------- save and load alone -------------------------- *)
\* Lists of notes handed to save_notes.
NoteLists == SeqsUpTo(ExternalNotes, MaxNotes)

\* Process 1 holds a list of notes; no backing file yet.
InitRoundTrip ==
    /\ file = NoFile
    /\ pc = "idle"
    /\ prev = NoFile
    /\ last = NoOp
    /\ retired = {}
    /\ command = <<>>
    /\ shown = <<>>
    /\ report = NoFile
    /\ \E items \in NoteLists :
          local = [p \in Procs |->
                     IF p = 1 THEN [Idle EXCEPT !.pc = "holds", !.notes = items]
                     ELSE Idle]

\* save_notes(notes) by process 1; base keeps the list that was handed in.
save_step ==
    /\ local[1].pc \in {"holds", "loaded"}
    /\ file' \in save_notes(file, local[1].notes, "ok")
    /\ local' = [local EXCEPT ![1].pc = "saved", ![1].base = local[1].notes]
    /\ last' = Did("save", "", "normal", TRUE, "ok", 1, "", <<>>, <<>>)
    /\ prev' = file
    /\ UNCHANGED <<pc, retired, command, shown, report>>

\* notes = load_notes() by process 1.
load_step ==
    /\ local[1].pc = "saved"
    /\ local' = [local EXCEPT ![1].pc = "loaded",
                              ![1].notes = load_notes(file).items]
    /\ last' = Did("load", "", "normal", FALSE, "none", 1, "", <<>>, <<>>)
    /\ prev' = file
    /\ UNCHANGED <<file, pc, retired, command, shown, report>>

NextRoundTrip ==
    \/ save_step
    \/ load_step

SpecRoundTrip == InitRoundTrip /\ [][NextRoundTrip]_vars

(* ----------------------- concurrent invocations ------------------------- *)
\* Lists of notes with pairwise distinct ids.
UniqueLists ==
    {items \in NoteLists :
        \A i, j \in 1..Len(items) : i # j => items[i].id # items[j].id}

\* The text a process adds.
TextOf(p) == IF p = 1 THEN "buy milk" ELSE "call mom"

\* A store with distinct ids, and two invocations about to start; each runs
\* once.
InitRace ==
    /\ file \in {NoFile} \cup {FileWith(Dump(items)) : items \in UniqueLists}
    /\ pc = "idle"
    /\ prev = file
    /\ last = NoOp
    /\ retired = {}
    /\ Fresh

\* Process p has loaded the list base and holds the list notes to save.
Loaded(p, op, base, notes) ==
    /\ local' = [local EXCEPT ![p] = [pc |-> "loaded", op |-> op,
                                      base |-> base, notes |-> notes]]
    /\ last' = Did("load", op, "running", FALSE, "none", p, "", <<>>, <<>>)
    /\ UNCHANGED <<file, pc, prev, retired, command, shown, report>>

\* add_note of process p up to its save_notes.
race_add(p) ==
    /\ local[p].pc = "idle"
    /\ \E now \in Timestamps :
         LET items == load_notes(file).items IN
         /\ Len(items) < MaxNotes
         /\ NextId(items) <= MaxId
         /\ Loaded(p, "add", items,
                   Append(items, Note(TextOf(p), now, NextId(items))))

\* remove_note of process p up to its save_notes, for an id that is found.
race_remove(p) ==
    /\ local[p].pc = "idle"
    /\ \E id \in 1..MaxId :
         LET items == load_notes(file).items
             at == FindFirst(items, id)
         IN  /\ at # 0
             /\ Loaded(p, "remove", items, ListRemove(items, items[at]))

\* fix_duplicate_ids of process p up to its save_notes.
race_fix(p) ==
    /\ local[p].pc = "idle"
    /\ LET notes == load_notes(file) IN
       /\ ~Falsy(notes)
       /\ Loaded(p, "fix", notes.items, Renumber(notes.items))

\* clear_all_notes of process p up to the answer to its prompt.
race_clear(p) ==
    /\ local[p].pc = "idle"
    /\ LET notes == load_notes(file) IN
       /\ ~Falsy(notes)
       /\ Loaded(p, "clear", notes.items, <<>>)

\* The answer no to the prompt of clear_all_notes: nothing is saved.
race_cancel(p) ==
    /\ local[p].pc = "loaded"
    /\ local[p].op = "clear"
    /\ local' = [local EXCEPT ![p].pc = "done", ![p].notes = local[p].base]
    /\ last' = Did("clear", "Operation cancelled.", "normal",
                   FALSE, "none", p, "", <<>>, <<>>)
    /\ UNCHANGED <<file, pc, prev, retired, command, shown, report>>

\* The save_notes of process p (for clear_all_notes, after the answer yes).
race_save(p) ==
    /\ local[p].pc = "loaded"
    /\ file' \in save_notes(file, local[p].notes, "ok")
    /\ local' = [local EXCEPT ![p].pc = "done"]
    /\ last' = Did("save", local[p].op, "normal", TRUE, "ok", p, "", <<>>, <<>>)
    /\ prev' = file
    /\ UNCHANGED <<pc, retired, command, shown, report>>

NextRace ==
    \E p \in Procs :
        \/ race_add(p)
        \/ race_remove(p)
        \/ race_fix(p)
        \/ race_clear(p)
        \/ race_cancel(p)
        \/ race_save(p)

SpecRace == InitRace /\ [][NextRace]_vars

(* ------------------------------ properties ----------------------------- *)
\* The note objects written in a file, in order.
Stored(f) ==
    LET objs == SelectSeq(f.content, LAMBDA k : k.tok = "obj")
    IN  [i \in 1..Len(objs) |->
            [text |-> objs[i].text, timestamp |-> objs[i].timestamp, id |-> objs[i].id]]

\* The file holds the text of a JSON array of note objects.
WellFormed(f) ==
    /\ f.exists
    /\ LET c == f.content
           n == Len(c)
       IN  /\ n >= 2
           /\ c[1].tok = "["
           /\ c[n].tok = "]"
           /\ n = 2 \/ n % 2 = 1
           /\ \A i \in 2..(n - 1) : c[i].tok = (IF i % 2 = 0 THEN "obj" ELSE ",")

\* The file of an empty store: missing, or holding the empty array.
EmptyStore(f) == ~f.exists \/ (WellFormed(f) /\ Stored(f) = <<>>)

\* The ids written in a file.
StoredIds(f) == {Stored(f)[i].id : i \in 1..Len(Stored(f))}

\* items without its k-th element.
Without(items, k) ==
    [i \in 1..(Len(items) - 1) |-> IF i < k THEN items[i] ELSE items[i + 1]]

\* The latest step was an Add that wrote the store.
Added == last.op = "add" /\ last.saved
\* The latest step was a Remove that wrote the store.
Removed == last.op = "remove" /\ last.saved
\* The latest step was a FixDuplicateIds that wrote the store.
Fixed == last.op = "fix" /\ last.saved
\* The id of the last note written in the file.
NewestId == Stored(file)[Len(Stored(file))].id

\* C1: every Add gives the new note the id (largest stored id) + 1, or 1 when
\* the store is empty at that moment, also after Removes have left gaps.
C1_AddAssignsMaxPlusOne ==
    Added =>
        /\ Len(Stored(file)) = Len(Stored(prev)) + 1
        /\ IF Stored(prev) = <<>>
           THEN NewestId = 1
           ELSE /\ NewestId - 1 \in StoredIds(prev)
                /\ \A n \in StoredIds(prev) : n < NewestId

\* C1 witness: an Add on a store whose lowest id was removed before.
C1_Witness ==
    /\ Added
    /\ 1 \in retired
    /\ StoredIds(prev) = {2}
    /\ NewestId = 3

\* C2: no two stored notes have the same id, in every state reached from the
\* empty store by Add, Remove, FixDuplicateIds and ClearAll.
C2_IdsUnique ==
    \A i, j \in 1..Len(Stored(file)) :
        i # j => Stored(file)[i].id # Stored(file)[j].id

\* C2 witness: a store of two notes written by an Add after a Remove.
C2_Witness ==
    /\ Added
    /\ retired # {}
    /\ Len(Stored(file)) >= 2

\* C3 as stated: with only Add and Remove, an Add never gives out the id of
\* a note that was removed before.
C3_RemovedIdNeverReused == Added => NewestId \notin retired

\* C3 amended: with only Add and Remove, an Add never gives out the id of a
\* removed note while a stored note carries that id or a larger one.
C3_RemovedIdBelowMaxNotReused ==
    Added =>
        \A r \in retired :
            (\E n \in StoredIds(prev) : n >= r) => NewestId # r

\* C3 witness: an Add after id 1 was removed leaves the gap at 1.
C3_Witness ==
    /\ Added
    /\ 1 \in retired
    /\ 1 \notin StoredIds(file)
    /\ Len(Stored(file)) = 2

\* C4 as stated: a Remove of a stored id takes exactly one note away, leaves
\* no note with that id, and leaves the other notes as they were.
C4_RemoveLeavesNoSuchId ==
    Removed =>
        /\ Len(Stored(file)) = Len(Stored(prev)) - 1
        /\ last.id \notin StoredIds(file)
        /\ \E k \in 1..Len(Stored(prev)) :
              /\ Stored(prev)[k].id = last.id
              /\ Stored(file) = Without(Stored(prev), k)

\* C4 amended: a Remove of a stored id takes exactly one note with that id
\* away, leaves no note with that id unless another stored note carried it
\* too, and leaves the other notes as they were.
C4_RemoveTakesOneNote ==
    Removed =>
        /\ Len(Stored(file)) = Len(Stored(prev)) - 1
        /\ (Cardinality({k \in 1..Len(Stored(prev)) : Stored(prev)[k].id = last.id}) = 1
               => last.id \notin StoredIds(file))
        /\ \E k \in 1..Len(Stored(prev)) :
              /\ Stored(prev)[k].id = last.id
              /\ Stored(file) = Without(Stored(prev), k)

\* C4 witness: the middle note of three is removed.
C4_Witness ==
    /\ Removed
    /\ Len(Stored(prev)) = 3
    /\ Stored(prev)[2].id = last.id
    /\ Stored(prev)[1].id # last.id
    /\ Stored(prev)[3].id # last.id
    /\ Stored(file) = <<Stored(prev)[1], Stored(prev)[3]>>

\* The number an argument of IntArgs denotes.
ValueOf(arg) == (CHOOSE x \in IntInputs : x.arg = arg).val

\* C5: a Remove whose argument is no integer reports InvalidArgument, one
\* whose integer matches no stored id reports NotFound; both leave the file
\* as it was, call no Save and end normally.
C5_FailedRemoveChangesNothing ==
    last.op = "remove" =>
        /\ last.arg \in NonIntArgs =>
              /\ last.msg = "Error: not a valid ID number"
              /\ ~last.saved /\ file = prev /\ last.exit = "normal"
        /\ (last.arg \in IntArgs /\ ValueOf(last.arg) \notin StoredIds(prev)) =>
              /\ last.msg = "Error: No note found"
              /\ ~last.saved /\ file = prev /\ last.exit = "normal"
        /\ ~last.saved => file = prev

\* C5 witness: a Remove of an id that no note of a non-empty store carries.
C5_Witness ==
    /\ last.op = "remove"
    /\ last.arg = <<" ", "2", " ">>
    /\ Stored(prev) # <<>>
    /\ 2 \in retired
    /\ last.msg = "Error: No note found"

\* C6: FixDuplicateIds on a store of N >= 1 notes writes a store whose k-th
\* note has id k and the text and timestamp it had.
C6_FixRenumbersDensely ==
    /\ (last.op = "fix" /\ WellFormed(prev) /\ Len(Stored(prev)) >= 1) => last.saved
    /\ Fixed =>
          /\ WellFormed(file)
          /\ Len(Stored(file)) = Len(Stored(prev))
          /\ \A k \in 1..Len(Stored(file)) :
                /\ Stored(file)[k].id = k
                /\ Stored(file)[k].text = Stored(prev)[k].text
                /\ Stored(file)[k].timestamp = Stored(prev)[k].timestamp

\* C6 witness: a store with a duplicate id and a gap was renumbered.
C6_Witness ==
    /\ Fixed
    /\ Len(Stored(prev)) = 3
    /\ Stored(prev)[1].id = 3
    /\ Stored(prev)[2].id = 3
    /\ Stored(prev)[3].id = 1
    /\ StoredIds(file) = {1, 2, 3}

\* C7: a FixDuplicateIds that follows a FixDuplicateIds leaves the file as
\* the first one wrote it.
C7_FixIdempotent ==
    [][(last.op = "fix" /\ last'.op = "fix") => file' = file]_vars

\* C7 witness: FixDuplicateIds ran twice in a row on a store of notes.
C7_Witness ==
    /\ Fixed
    /\ last.again
    /\ file = prev
    /\ Len(Stored(file)) >= 2

\* C8: an Add on a file that exists but is no parseable note collection ends
\* normally and writes a store holding just the new note, with id 1.
C8_AddOnUnparseableFile ==
    (last.op = "add" /\ prev.exists /\ ~WellFormed(prev)) =>
        /\ last.exit = "normal"
        /\ WellFormed(file)
        /\ Len(Stored(file)) = 1
        /\ Stored(file)[1].id = 1
        /\ Stored(file)[1].text = last.text

\* C9: a Save whose write fails is reported and does not crash the process.
C9_WriteFailureReported ==
    (last.saved /\ last.io # "ok") => last.exit # "crash"

\* A reply was read from the confirmation prompt in the latest step.
Answered ==
    /\ last.op = "clear"
    /\ last.msg \notin {"No notes to clear.", "Warning", "Traceback: EOFError"}

\* C10: ClearAll on a non-empty store writes only after y or yes was read,
\* and then writes the empty sequence; n, no and the empty answer end it
\* with the file as it was, and unrecognized answers leave the file as it
\* was and the prompt open.
C10_ClearOnlyOnYes ==
    /\ pc = "confirm" => (file = prev /\ ~last.saved)
    /\ (last.op = "clear" /\ (last.saved \/ file # prev)) =>
          (Answered /\ last.arg \in YesReplies)
    /\ (Answered /\ last.arg \in YesReplies) =>
          /\ pc = "idle" /\ last.saved /\ Stored(prev) # <<>>
          /\ file = [exists |-> TRUE, content |-> <<Tok("["), Tok("]")>>]
    /\ (Answered /\ last.arg \in NoReplies) =>
          pc = "idle" /\ ~last.saved /\ file = prev
    /\ (Answered /\ last.arg \in OtherReplies) =>
          pc = "confirm" /\ ~last.saved /\ file = prev

\* C10 witness: a store of two notes was cleared on the answer " YES ".
C10_Witness ==
    /\ Answered
    /\ last.arg = <<" ", "Y", "E", "S", " ">>
    /\ Len(Stored(prev)) = 2
    /\ Stored(file) = <<>>
    /\ file.exists

\* The latest step ended a ClearAll that had asked for confirmation.
ClearEnded ==
    /\ last.op = "clear"
    /\ pc = "idle"
    /\ last.msg # "No notes to clear."

\* C11: the prompt of ClearAll is repeated after every unrecognized answer,
\* and ClearAll ends when, and only when, a recognized answer (y, yes, n, no,
\* empty) was read.
C11_ClearEndsOnlyOnRecognizedReply ==
    /\ (Answered /\ last.arg \in OtherReplies) => pc = "confirm"
    /\ (Answered /\ last.arg \in YesReplies \cup NoReplies) => pc = "idle"
    /\ ClearEnded => (Answered /\ last.arg \in YesReplies \cup NoReplies)

\* The messages of the operations that find the store empty.
EmptyMessages ==
    {"No notes found.", "No notes to export.", "No notes to clear.", "No notes to fix."}

\* C12: on an empty store List, Export, ClearAll and FixDuplicateIds save
\* nothing, write no export file, ask nothing and report no error.
C12_EmptyStoreNoOps ==
    (EmptyStore(prev) /\ last.op \in {"list", "export", "clear", "fix"}) =>
        /\ ~last.saved
        /\ file = prev
        /\ ~report.exists
        /\ shown = <<>>
        /\ pc = "idle"
        /\ last.exit = "normal"
        /\ last.msg \in EmptyMessages

\* C12 witness: Export on a backing file that holds the empty list.
C12_Witness ==
    /\ last.op = "export"
    /\ last.msg = "No notes to export."
    /\ prev = [exists |-> TRUE, content |-> <<Tok("["), Tok("]")>>]
    /\ file = prev
    /\ ~report.exists

KnownFlags ==
    {<<"-", "a">>, <<"-", "-", "a", "d", "d">>,
     <<"-", "l">>, <<"-", "-", "l", "i", "s", "t">>,
     <<"-", "r">>, <<"-", "-", "r", "e", "m", "o", "v", "e">>,
     <<"-", "e">>, <<"-", "-", "e", "x", "p", "o", "r", "t">>,
     <<"-", "c">>, <<"-", "-", "c", "l", "e", "a", "r">>,
     <<"-", "f">>, <<"-", "-", "f", "i", "x">>,
     <<"-", "h">>, <<"-", "-", "h", "e", "l", "p">>}

\* The latest invocation had a first argument with a leading dash that is
\* no known flag.
TypedUnknownFlag ==
    /\ command # <<>>
    /\ command[1] = "-"
    /\ command \notin KnownFlags

Bodies(items) ==
    [i \in 1..Len(items) |-> <<items[i].text, items[i].timestamp>>]

\* C16: Add only appends one note, Remove and ClearAll only delete notes,
\* FixDuplicateIds changes only ids, and nothing else touches the store, so
\* texts, timestamps and the order of the surviving notes never change.
C16_NotesKeepTextTimeOrder ==
    /\ Added => \E n \in 1..MaxId, ts \in Timestamps :
                   Stored(file) = Append(Stored(prev), Note(last.text, ts, n))
    /\ Removed => \E k \in 1..Len(Stored(prev)) :
                     Stored(file) = Without(Stored(prev), k)
    /\ Fixed => Bodies(Stored(file)) = Bodies(Stored(prev))
    /\ (last.op = "clear" /\ last.saved) => Stored(file) = <<>>
    /\ ~last.saved => file = prev

\* C16 witness: the first of three notes was removed, the other two stay
\* in their order.
C16_Witness ==
    /\ Removed
    /\ Len(Stored(prev)) = 3
    /\ Stored(file) = <<Stored(prev)[2], Stored(prev)[3]>>
    /\ Stored(prev)[2].text # Stored(prev)[3].text

\* C17: when several stored notes have the id, Remove deletes the first of
\* them in storage order and leaves the later ones.
C17_RemoveFirstMatchOnly ==
    Removed =>
        \E k \in 1..Len(Stored(prev)) :
            /\ Stored(prev)[k].id = last.id
            /\ \A j \in 1..(k - 1) : Stored(prev)[j].id # last.id
            /\ Stored(file) = Without(Stored(prev), k)
            /\ \A j \in (k + 1)..Len(Stored(prev)) :
                  Stored(prev)[j].id = last.id => Stored(file)[j - 1] = Stored(prev)[j]

\* C17 witness: the first and the third note had the id, the third stays.
C17_Witness ==
    /\ Removed
    /\ Len(Stored(prev)) = 3
    /\ Stored(prev)[1].id = last.id
    /\ Stored(prev)[3].id = last.id
    /\ Stored(prev)[2].id # last.id
    /\ Stored(prev)[1] # Stored(prev)[3]
    /\ Stored(file) = <<Stored(prev)[2], Stored(prev)[3]>>

\* C19: the stored ids are positive and strictly increase along the storage
\* order, so the last note has the largest id.
C19_IdsIncrease ==
    /\ \A i \in 1..Len(Stored(file)) : Stored(file)[i].id >= 1
    /\ \A i, j \in 1..Len(Stored(file)) :
          i < j => Stored(file)[i].id < Stored(file)[j].id

\* C19 witness: a store whose ids have a gap.
C19_Witness ==
    /\ Len(Stored(file)) = 2
    /\ Stored(file)[1].id = 1
    /\ Stored(file)[2].id = 3

\* C15: loading right after saving a list of notes yields that list: same
\* notes, same order, same text, timestamp and id in each.
C15_SaveThenLoad ==
    local[1].pc = "loaded" => local[1].notes = local[1].base

\* C15 witness: three notes, two of them sharing an id, came back as saved.
C15_Witness ==
    /\ local[1].pc = "loaded"
    /\ last.op = "load"
    /\ Len(local[1].base) = 3
    /\ local[1].base[1].id = local[1].base[3].id
    /\ local[1].base[1] # local[1].base[3]
    /\ Stored(file) = local[1].base
    /\ local[1].notes = local[1].base

\* C18: after the save of one of two concurrent invocations the file holds
\* exactly what that invocation computed from the list it loaded, whatever
\* the other invocation saved in between.
C18_LastSaveWins ==
    last.op = "save" =>
        LET base == local[last.id].base
            n == Len(base)
        IN  /\ WellFormed(file)
            /\ Stored(file) = local[last.id].notes
            /\ last.msg = "add" =>
                  /\ Len(Stored(file)) = n + 1
                  /\ SubSeq(Stored(file), 1, n) = base
                  /\ Stored(file)[n + 1].text = TextOf(last.id)
            /\ last.msg = "remove" =>
                  \E k \in 1..n : Stored(file) = Without(base, k)
            /\ last.msg = "fix" =>
                  /\ Len(Stored(file)) = n
                  /\ \A i \in 1..n :
                        /\ Stored(file)[i].id = i
                        /\ Stored(file)[i].text = base[i].text
                        /\ Stored(file)[i].timestamp = base[i].timestamp
            /\ last.msg = "clear" => Stored(file) = <<>>

\* C18 witness: both invocations loaded the same list and added a note; the
\* note saved first is gone after the second save.
C18_Witness ==
    /\ last.op = "save"
    /\ last.msg = "add"
    /\ \E q \in Procs \ {last.id} :
          /\ local[q].pc = "done"
          /\ local[q].op = "add"
          /\ local[q].base = local[last.id].base
          /\ Stored(prev) = local[q].notes
          /\ Len(Stored(file)) = Len(Stored(prev))
          /\ \A i \in 1..Len(Stored(file)) : Stored(file)[i].text # TextOf(q)
          /\ Stored(prev)[Len(Stored(prev))].text = TextOf(q)

\* C20: started on a store without duplicate ids, two concurrent invocations
\* leave no duplicate id in the file, however their loads and saves
\* interleave.
C20_RaceKeepsIdsUnique ==
    Cardinality(StoredIds(file)) = Len(Stored(file))

\* C20 witness: an add and a fix loaded the same two notes, the fix saved
\* first and the add overwrote it.
C20_Witness ==
    /\ last.op = "save"
    /\ last.msg = "add"
    /\ \E q \in Procs \ {last.id} :
          /\ local[q].pc = "done"
          /\ local[q].op = "fix"
          /\ local[q].base = local[last.id].base
          /\ Len(local[q].base) = 2
          /\ local[q].notes # local[q].base
          /\ Stored(prev) = local[q].notes
          /\ Len(Stored(file)) = 3

=============================================================================
